---- MODULE Spec2Model ----
(***************************************************************************)
(* Model of the traffic counter analysis package: the record parser, the   *)
(* loader, the aggregation functions, the top-n selector, the sliding      *)
(* window minimiser (traffic_counter/analysis.py) and the command-line     *)
(* entry point (traffic_counter/cli.py).                                   *)
(*                                                                         *)
(* A timestamp is a natural number of half-hour slots since an epoch; a    *)
(* calendar day holds SlotsPerDay slots.  A line of text is the sequence   *)
(* of its whitespace-separated tokens, and a token is a timestamp literal, *)
(* an integer literal or text that is neither.                             *)
(***************************************************************************)
EXTENDS Integers, Sequences, FiniteSets

VARIABLES
    records,        \* the collection handed to the analysis functions
    called,         \* Spec: which analysis function has been called
    arg,            \* Spec: its integer argument (n or window_size)
    totalRet,       \* Spec: total_cars' return value
    dailyRet,       \* Spec: daily_totals' return value
    topRet,         \* Spec: top_n_half_hours' outcome
    windowRet,      \* Spec: lowest_traffic_window's outcome
    file,           \* SpecMain: the input file named on the command line
    args,           \* SpecMain: the parsed --top and --window
    pc,             \* SpecMain: main's position
    lowest_window,  \* SpecMain: main's local lowest_window
    stdout,         \* SpecMain: lines printed on standard output
    stderr,         \* SpecMain: lines printed on the error stream
    exit_code,      \* SpecMain: main's return value (NotExited while running)
    raised          \* SpecMain: the exception that left main uncaught

vars == <<records, called, arg, totalRet, dailyRet, topRet, windowRet,
          file, args, pc, lowest_window, stdout, stderr, exit_code, raised>>

(***************************************************************************)
(* Bounds of the model.                                                    *)
(***************************************************************************)
MaxLen == 3         \* records in a collection handed to a function
MaxLines == 2       \* physical lines in an input file
MaxTs == 2          \* timestamps are 0..MaxTs
MaxCount == 1       \* counts are 0..MaxCount
SlotsPerDay == 2    \* half-hour slots per calendar day

(***************************************************************************)
(* Data.                                                                   *)
(***************************************************************************)
Timestamps == 0..MaxTs
Counts == 0..MaxCount

TrafficRecord(timestamp, count) == [timestamp |-> timestamp, count |-> count]

TrafficRecords == {TrafficRecord(t, c) : t \in Timestamps, c \in Counts}

\* timestamp.date()
DateOf(timestamp) == timestamp \div SlotsPerDay

RECURSIVE SumCounts(_)
SumCounts(s) == IF s = <<>> THEN 0 ELSE Head(s).count + SumCounts(Tail(s))

\* The sort key of load_records and lowest_traffic_window.
TimestampLess(a, b) == a.timestamp < b.timestamp

\* list.sort / sorted are stable: an element goes after every element whose
\* key is not strictly greater than its own.
RECURSIVE InsertByTimestamp(_, _)
InsertByTimestamp(r, s) ==
    IF s = <<>> THEN <<r>>
    ELSE IF TimestampLess(r, Head(s)) THEN <<r>> \o s
    ELSE <<Head(s)>> \o InsertByTimestamp(r, Tail(s))

RECURSIVE SortByTimestamp(_)
SortByTimestamp(s) ==
    IF s = <<>> THEN <<>>
    ELSE InsertByTimestamp(s[Len(s)], SortByTimestamp(SubSeq(s, 1, Len(s) - 1)))

\* s[lo:hi] for 0 <= lo, 0 <= hi
PySlice(s, lo, hi) ==
    SubSeq(s, lo + 1, IF hi < Len(s) THEN hi ELSE Len(s))

TrafficWindow(recs) == [records |-> recs]
NoWindow == TrafficWindow(<<>>)
WindowStart(w) == w.records[1].timestamp
WindowEnd(w) == w.records[Len(w.records)].timestamp + 1
WindowTotal(w) == SumCounts(w.records)

(***************************************************************************)
(* Exceptions.                                                             *)
(***************************************************************************)
Exc(type, msg, line, reason) ==
    [type |-> type, msg |-> msg, line |-> line, reason |-> reason]
NoExc == Exc("None", "", 0, "")
ValueError(msg) == Exc("ValueError", msg, 0, "")

(***************************************************************************)
(* Record parser.                                                          *)
(***************************************************************************)
TsTok(t) == [kind |-> "ts", val |-> t]
IntTok(i) == [kind |-> "int", val |-> i]
JunkTok == [kind |-> "junk", val |-> 0]

\* datetime.fromisoformat(timestamp_text)
FromIsoformat(tok) ==
    IF tok.kind = "ts" THEN [ok |-> TRUE, value |-> tok.val]
    ELSE [ok |-> FALSE, value |-> 0]

\* int(count_text)
ParseInt(tok) ==
    IF tok.kind = "int" THEN [ok |-> TRUE, value |-> tok.val]
    ELSE [ok |-> FALSE, value |-> 0]

NoRecord == TrafficRecord(0, 0)

ParseRecordLine(line) ==
    IF line = <<>> THEN
        [exc |-> ValueError("Line is empty"), record |-> NoRecord]
    ELSE IF Len(line) # 2 THEN
        [exc |-> ValueError("Expected exactly 2 fields"), record |-> NoRecord]
    ELSE IF ~FromIsoformat(line[1]).ok THEN
        [exc |-> ValueError("Invalid timestamp format"), record |-> NoRecord]
    ELSE IF ~ParseInt(line[2]).ok THEN
        [exc |-> ValueError("Count must be an integer"), record |-> NoRecord]
    ELSE IF ParseInt(line[2]).value < 0 THEN
        [exc |-> ValueError("Count must be non-negative"), record |-> NoRecord]
    ELSE
        [exc |-> NoExc,
         record |-> TrafficRecord(FromIsoformat(line[1]).value,
                                  ParseInt(line[2]).value)]

(***************************************************************************)
(* Loader.                                                                 *)
(***************************************************************************)
\* line.strip() is empty
IsBlank(line) == line = <<>>

\* Variant: the line counter advanced for non-blank lines only.
LineNumberSkippingBlanks(lines, i) ==
    Cardinality({j \in 1..i : lines[j] # <<>>})

\* The line number the loader reports for the line at position i.
LineNumber(lines, i) == i

\* What the loader does with a line the parser accepted or rejected.
ParseInto(lines, i, acc) ==
    LET p == ParseRecordLine(lines[i])
    IN  IF p.exc.type # "None"
        THEN [exc |-> Exc("ValueError", "Parse error", LineNumber(lines, i), p.exc.msg),
              records |-> <<>>, stop |-> TRUE]
        ELSE [exc |-> NoExc, records |-> Append(acc, p.record), stop |-> FALSE]

\* for line_number, line in enumerate(handle, start=1): ...
RECURSIVE ReadLines(_, _, _)
ReadLines(lines, i, acc) ==
    IF i > Len(lines) THEN [exc |-> NoExc, records |-> acc]
    ELSE IF IsBlank(lines[i]) THEN ReadLines(lines, i + 1, acc)
    ELSE LET step == ParseInto(lines, i, acc)
         IN  IF step.stop THEN [exc |-> step.exc, records |-> <<>>]
             ELSE ReadLines(lines, i + 1, step.records)

\* Variant: the final sort left out.
SortRecordsOmitted(recs) == recs

\* records.sort(key=lambda record: record.timestamp)
SortRecords(recs) == SortByTimestamp(recs)

LoadRecords(f) ==
    IF f.status = "missing" THEN
        [exc |-> Exc("FileNotFoundError", "File not found", 0, ""), records |-> <<>>]
    ELSE IF f.status = "not_file" THEN
        [exc |-> ValueError("Path is not a file"), records |-> <<>>]
    ELSE IF f.status = "unreadable" THEN
        [exc |-> Exc("OSError", "Failed to read file", 0, ""), records |-> <<>>]
    ELSE IF f.status = "undecodable" THEN
        [exc |-> ValueError("File encoding error"), records |-> <<>>]
    ELSE LET read == ReadLines(f.lines, 1, <<>>)
         IN  IF read.exc.type # "None" THEN read
             ELSE IF read.records = <<>> THEN
                 [exc |-> ValueError("No valid records found"), records |-> <<>>]
             ELSE [exc |-> NoExc, records |-> SortRecords(read.records)]

(***************************************************************************)
(* Aggregator.                                                             *)
(***************************************************************************)
TotalCars(recs) == SumCounts(recs)

\* Variant: the day's total overwritten instead of accumulated.
AddToTotalsOverwrite(totals, record) ==
    LET record_date == DateOf(record.timestamp)
    IN  [d \in DOMAIN totals \cup {record_date} |->
            IF d = record_date THEN record.count ELSE totals[d]]

\* totals[record_date] = totals.get(record_date, 0) + record.count
AddToTotals(totals, record) ==
    LET record_date == DateOf(record.timestamp)
    IN  [d \in DOMAIN totals \cup {record_date} |->
            IF d = record_date
            THEN (IF d \in DOMAIN totals THEN totals[d] ELSE 0) + record.count
            ELSE totals[d]]

RECURSIVE GroupByDate(_, _)
GroupByDate(totals, recs) ==
    IF recs = <<>> THEN totals
    ELSE GroupByDate(AddToTotals(totals, Head(recs)), Tail(recs))

\* sorted(totals.items(), key=lambda item: item[0])
RECURSIVE SortedItems(_)
SortedItems(totals) ==
    IF DOMAIN totals = {} THEN <<>>
    ELSE LET first == CHOOSE d \in DOMAIN totals : \A e \in DOMAIN totals : d <= e
             rest == [d \in DOMAIN totals \ {first} |-> totals[d]]
         IN  <<[date |-> first, total |-> totals[first]]>> \o SortedItems(rest)

DailyTotals(recs) == SortedItems(GroupByDate([d \in {} |-> 0], recs))

(***************************************************************************)
(* Top-n selector.                                                         *)
(***************************************************************************)
\* Variant: the key without its timestamp component.
RankLessCountOnly(a, b) == -a.count < -b.count

\* key=lambda record: (-record.count, record.timestamp)
RankLess(a, b) ==
    \/ -a.count < -b.count
    \/ -a.count = -b.count /\ a.timestamp < b.timestamp

RECURSIVE InsertByRank(_, _)
InsertByRank(r, s) ==
    IF s = <<>> THEN <<r>>
    ELSE IF RankLess(r, Head(s)) THEN <<r>> \o s
    ELSE <<Head(s)>> \o InsertByRank(r, Tail(s))

RECURSIVE SortByRank(_)
SortByRank(s) ==
    IF s = <<>> THEN <<>>
    ELSE InsertByRank(s[Len(s)], SortByRank(SubSeq(s, 1, Len(s) - 1)))

TopNHalfHours(recs, n) ==
    IF n < 1 THEN [exc |-> ValueError("n must be positive"), value |-> <<>>]
    ELSE IF recs = <<>> THEN [exc |-> NoExc, value |-> <<>>]
    ELSE [exc |-> NoExc, value |-> PySlice(SortByRank(recs), 0, n)]

(***************************************************************************)
(* Window minimiser.                                                       *)
(***************************************************************************)
\* Variant: the sort run with reverse=True.
RECURSIVE Reversed(_)
Reversed(s) == IF s = <<>> THEN <<>> ELSE Append(Reversed(Tail(s)), Head(s))

OrderRecordsDescending(recs) == Reversed(SortByTimestamp(Reversed(recs)))

\* ordered_records = sorted(records, key=lambda record: record.timestamp)
OrderRecords(recs) == SortByTimestamp(recs)

\* Variant: a later window with an equal total replaces the earlier one.
ImprovesOrTies(current_sum, min_total) == current_sum <= min_total

\* if current_sum < min_total
Improves(current_sum, min_total) == current_sum < min_total

\* The loop over start_index; yields best_start.  Python indexes from 0.
RECURSIVE Slide(_, _, _, _, _, _)
Slide(ordered_records, window_size, start_index, current_sum, min_total, best_start) ==
    IF start_index >= Len(ordered_records) - window_size + 1 THEN best_start
    ELSE LET next_sum == current_sum
                           - ordered_records[(start_index - 1) + 1].count
                           + ordered_records[(start_index + window_size - 1) + 1].count
         IN  IF Improves(next_sum, min_total)
             THEN Slide(ordered_records, window_size, start_index + 1,
                        next_sum, next_sum, start_index)
             ELSE Slide(ordered_records, window_size, start_index + 1,
                        next_sum, min_total, best_start)

\* Variant: the record-count guard left to the check that follows the sort.
RejectsSizeOnly(recs, window_size) ==
    IF window_size < 1 THEN ValueError("window_size must be positive") ELSE NoExc

\* The guards that precede the sort.
RejectsBeforeSort(recs, window_size) ==
    IF window_size < 1 THEN ValueError("window_size must be positive")
    ELSE IF Len(recs) < window_size
         THEN ValueError("Not enough records to form a window")
         ELSE NoExc

\* The outcome of a call: the exception raised or the window returned, and
\* how far the call got ("check": the guards, "sorted": after the sort,
\* "returned": the sliding pass ran and a window was built).
LowestTrafficWindow(recs, window_size) ==
    IF RejectsBeforeSort(recs, window_size).type # "None" THEN
        [exc |-> RejectsBeforeSort(recs, window_size), stage |-> "check",
         window |-> NoWindow]
    ELSE LET ordered_records == OrderRecords(recs)
         IN  IF Len(ordered_records) < window_size THEN
                 [exc |-> ValueError("Not enough records after sorting"),
                  stage |-> "sorted", window |-> NoWindow]
             ELSE LET current_sum == SumCounts(PySlice(ordered_records, 0, window_size))
                      best_start == Slide(ordered_records, window_size, 1,
                                          current_sum, current_sum, 0)
                  IN  [exc |-> NoExc, stage |-> "returned",
                       window |-> TrafficWindow(
                           PySlice(ordered_records, best_start,
                                   best_start + window_size))]

(***************************************************************************)
(* The analysis functions called on an arbitrary collection.               *)
(***************************************************************************)
RECURSIVE SeqsUpTo(_, _)
SeqsUpTo(S, n) ==
    IF n = 0 THEN {<<>>}
    ELSE LET shorter == SeqsUpTo(S, n - 1)
         IN  shorter \cup {Append(s, x) : s \in {t \in shorter : Len(t) = n - 1}, x \in S}

Collections == SeqsUpTo(TrafficRecords, MaxLen)
ArgValues == -1..(MaxLen + 1)

NoFile == [status |-> "none", lines |-> <<>>]
NoArgs == [top |-> 0, window |-> 0]
NoTop == [exc |-> NoExc, value |-> <<>>]
NoOutcome == [exc |-> NoExc, stage |-> "none", window |-> NoWindow]
NotExited == -1

Init ==
    /\ records \in Collections
    /\ called = "none"
    /\ arg = 0
    /\ totalRet = 0
    /\ dailyRet = <<>>
    /\ topRet = NoTop
    /\ windowRet = NoOutcome
    /\ file = NoFile
    /\ args = NoArgs
    /\ pc = "idle"
    /\ lowest_window = NoWindow
    /\ stdout = <<>>
    /\ stderr = <<>>
    /\ exit_code = NotExited
    /\ raised = NoExc

mainVars == <<file, args, pc, lowest_window, stdout, stderr, exit_code, raised>>

CallTotalCars ==
    /\ called = "none"
    /\ called' = "total_cars"
    /\ totalRet' = TotalCars(records)
    /\ UNCHANGED <<records, arg, dailyRet, topRet, windowRet, mainVars>>

CallDailyTotals ==
    /\ called = "none"
    /\ called' = "daily_totals"
    /\ dailyRet' = DailyTotals(records)
    /\ UNCHANGED <<records, arg, totalRet, topRet, windowRet, mainVars>>

CallTopNHalfHours ==
    /\ called = "none"
    /\ \E n \in ArgValues :
          /\ arg' = n
          /\ topRet' = TopNHalfHours(records, n)
    /\ called' = "top_n_half_hours"
    /\ UNCHANGED <<records, totalRet, dailyRet, windowRet, mainVars>>

CallLowestTrafficWindow ==
    /\ called = "none"
    /\ \E window_size \in ArgValues :
          /\ arg' = window_size
          /\ windowRet' = LowestTrafficWindow(records, window_size)
    /\ called' = "lowest_traffic_window"
    /\ UNCHANGED <<records, totalRet, dailyRet, topRet, mainVars>>

Next ==
    \/ CallTotalCars
    \/ CallDailyTotals
    \/ CallTopNHalfHours
    \/ CallLowestTrafficWindow

Spec == Init /\ [][Next]_vars

(***************************************************************************)
(* The command-line entry point.                                           *)
(***************************************************************************)
WellFormedLines == {<<TsTok(t), IntTok(c)>> : t \in Timestamps, c \in Counts}

MalformedLines ==
    { <<TsTok(0)>>,
      <<TsTok(0), IntTok(0), IntTok(0)>>,
      <<JunkTok, IntTok(0)>>,
      <<TsTok(0), JunkTok>>,
      <<TsTok(0), IntTok(-1)>> }

Lines == {<<>>} \cup WellFormedLines \cup MalformedLines

Files ==
    {[status |-> st, lines |-> <<>>] :
        st \in {"missing", "not_file", "unreadable", "undecodable"}}
    \cup {[status |-> "ok", lines |-> ls] : ls \in SeqsUpTo(Lines, MaxLines)}

MainArgValues == -1..(MaxLines + 1)

Out(kind, a, b) == [kind |-> kind, a |-> a, b |-> b]

\* Whether the text of a load error names the file's path.
NamesPath(exc) ==
    exc.msg \in {"File not found", "Path is not a file", "Failed to read file",
                 "File encoding error", "No valid records found"}

RECURSIVE DayLines(_)
DayLines(daily) ==
    IF daily = <<>> THEN <<>>
    ELSE <<Out("day", Head(daily).date, Head(daily).total)>> \o DayLines(Tail(daily))

RECURSIVE HalfHourLines(_)
HalfHourLines(busiest) ==
    IF busiest = <<>> THEN <<>>
    ELSE <<Out("half hour", Head(busiest).timestamp, Head(busiest).count)>>
         \o HalfHourLines(Tail(busiest))

\* lowest_window[0]: TrafficWindow defines no __getitem__.
GetItem(window, i) ==
    [exc |-> Exc("TypeError", "'TrafficWindow' object is not subscriptable", 0, ""),
     value |-> NoRecord]

InitMain ==
    /\ file \in Files
    /\ args \in [top : MainArgValues, window : MainArgValues]
    /\ pc = "load"
    /\ records = <<>>
    /\ lowest_window = NoWindow
    /\ stdout = <<>>
    /\ stderr = <<>>
    /\ exit_code = NotExited
    /\ raised = NoExc
    /\ called = "none"
    /\ arg = 0
    /\ totalRet = 0
    /\ dailyRet = <<>>
    /\ topRet = NoTop
    /\ windowRet = NoOutcome

libVars == <<called, arg, totalRet, dailyRet, topRet, windowRet>>

\* Variant: only the FileNotFoundError handler.
HandleNotFoundOnly(exc) ==
    IF exc.type = "FileNotFoundError"
    THEN [caught |-> TRUE, exit |-> 1,
          err |-> <<[text |-> "Error: File not found", path |-> TRUE, exc |-> NoExc]>>]
    ELSE [caught |-> FALSE, exit |-> NotExited, err |-> <<>>]

\* The exception handlers around load_records.
HandleLoadError(exc) ==
    IF exc.type = "FileNotFoundError"
    THEN [caught |-> TRUE, exit |-> 1,
          err |-> <<[text |-> "Error: File not found", path |-> TRUE, exc |-> NoExc]>>]
    ELSE [caught |-> TRUE, exit |-> 1,
          err |-> <<[text |-> "Error reading file", path |-> NamesPath(exc), exc |-> exc]>>]

MainLoad ==
    /\ pc = "load"
    /\ LET r == LoadRecords(file)
           h == HandleLoadError(r.exc)
       IN  IF r.exc.type = "None"
           THEN /\ records' = r.records
                /\ pc' = "totals"
                /\ UNCHANGED <<stderr, exit_code, raised>>
           ELSE IF h.caught
           THEN /\ stderr' = stderr \o h.err
                /\ exit_code' = h.exit
                /\ pc' = "exit"
                /\ UNCHANGED <<records, raised>>
           ELSE /\ raised' = r.exc
                /\ pc' = "exit"
                /\ UNCHANGED <<records, stderr, exit_code>>
    /\ UNCHANGED <<file, args, lowest_window, stdout, libVars>>

MainTotals ==
    /\ pc = "totals"
    /\ stdout' = stdout \o <<Out("Total", TotalCars(records), 0)>>
                        \o DayLines(DailyTotals(records))
    /\ pc' = "top"
    /\ UNCHANGED <<file, args, records, lowest_window, stderr, exit_code, raised, libVars>>

MainTop ==
    /\ pc = "top"
    /\ LET busiest == TopNHalfHours(records, args.top)
       IN  IF busiest.exc.type # "None"
           THEN /\ raised' = busiest.exc
                /\ pc' = "exit"
                /\ UNCHANGED stdout
           ELSE /\ stdout' = stdout \o <<Out("Top half hours:", 0, 0)>>
                                   \o HalfHourLines(busiest.value)
                /\ pc' = "window"
                /\ UNCHANGED raised
    /\ UNCHANGED <<file, args, records, lowest_window, stderr, exit_code, libVars>>

MainWindow ==
    /\ pc = "window"
    /\ LET r == LowestTrafficWindow(records, args.window)
           first == GetItem(r.window, 0)
           \* the exception that leaves the body of the try statement
           exc == IF r.exc.type # "None" THEN r.exc ELSE first.exc
       IN  /\ lowest_window' = IF r.exc.type = "None" THEN r.window ELSE lowest_window
           /\ IF exc.type = "ValueError"
              THEN /\ stdout' = stdout \o <<Out("No low-traffic window available", 0, 0)>>
                   /\ exit_code' = 0
                   /\ UNCHANGED raised
              ELSE IF exc.type # "None"
              THEN /\ raised' = exc
                   /\ UNCHANGED <<stdout, exit_code>>
              ELSE /\ stdout' = stdout
                          \o <<Out("Lowest traffic window:", 0, 0),
                               Out("Start", first.value.timestamp,
                                   SumCounts(r.window.records))>>
                   /\ exit_code' = 0
                   /\ UNCHANGED raised
    /\ pc' = "exit"
    /\ UNCHANGED <<file, args, records, stderr, libVars>>

NextMain ==
    \/ MainLoad
    \/ MainTotals
    \/ MainTop
    \/ MainWindow

SpecMain == InitMain /\ [][NextMain]_vars

(***************************************************************************)
(* Properties.  The orders below are stated by position counting, not by   *)
(* the sorting operators above.                                            *)
(***************************************************************************)
Positions(s) == 1..Len(s)

\* Where the element at position i stands once s is ordered by timestamp
\* with equal timestamps kept in their order of s.
StablePos(s, i) ==
    1 + Cardinality({j \in Positions(s) :
                        \/ s[j].timestamp < s[i].timestamp
                        \/ s[j].timestamp = s[i].timestamp /\ j < i})

StableOrder(s) ==
    [k \in Positions(s) |-> s[CHOOSE i \in Positions(s) : StablePos(s, i) = k]]

RECURSIVE CountSum(_)
CountSum(s) ==
    IF Len(s) = 0 THEN 0
    ELSE s[Len(s)].count + CountSum([k \in 1..(Len(s) - 1) |-> s[k]])

\* The run of w positionally adjacent elements of o that starts at b.
RunAt(o, b, w) == [k \in 1..w |-> o[b + k - 1]]
Starts(o, w) == 1..(Len(o) - w + 1)

NonDecreasing(s) ==
    \A i, j \in Positions(s) : i < j => s[i].timestamp <= s[j].timestamp
StrictlyIncreasing(s) ==
    \A i, j \in Positions(s) : i < j => s[i].timestamp < s[j].timestamp

Occurrences(s, v) == Cardinality({i \in Positions(s) : s[i] = v})

Outranks(a, b) ==
    a.count > b.count \/ (a.count = b.count /\ a.timestamp < b.timestamp)

WindowCalled == called = "lowest_traffic_window"

\* C1: for 1 <= window_size <= len(records), lowest_traffic_window returns
\* window_size records that are a run of adjacent elements of the stable
\* timestamp order of the input, whose total is <= the total of every such
\* run, and the run returned is the one with the smallest start index among
\* those of minimum total.
C1_LowestWindowIsFirstMinimum ==
    (WindowCalled /\ 1 <= arg /\ arg <= Len(records)) =>
        LET o == StableOrder(records)
            W == windowRet.window.records
            first == CHOOSE b \in Starts(o, arg) :
                        /\ \A k \in Starts(o, arg) :
                              CountSum(RunAt(o, b, arg)) <= CountSum(RunAt(o, k, arg))
                        /\ \A k \in Starts(o, arg) :
                              k < b => CountSum(RunAt(o, k, arg)) > CountSum(RunAt(o, b, arg))
        IN  /\ windowRet.exc = NoExc
            /\ Len(W) = arg
            /\ \A k \in Starts(o, arg) : WindowTotal(windowRet.window) <= CountSum(RunAt(o, k, arg))
            /\ W = RunAt(o, first, arg)

\* An unsorted input in which two different runs tie for the minimum total.
C1_Witness ==
    /\ WindowCalled /\ 1 <= arg /\ arg <= Len(records)
    /\ windowRet.stage = "returned"
    /\ records # StableOrder(records)
    /\ LET o == StableOrder(records)
       IN  \E b1, b2 \in Starts(o, arg) :
              /\ b1 < b2
              /\ RunAt(o, b1, arg) # RunAt(o, b2, arg)
              /\ CountSum(RunAt(o, b1, arg)) = CountSum(RunAt(o, b2, arg))
              /\ \A k \in Starts(o, arg) :
                    CountSum(RunAt(o, b1, arg)) <= CountSum(RunAt(o, k, arg))
              /\ windowRet.window.records = RunAt(o, b1, arg)

\* C7: lowest_traffic_window raises exactly when window_size < 1 or the
\* collection has fewer than window_size records, it does so in the guards
\* that precede the sort and the sums, and otherwise it returns a window.
C7_RejectsExactlyBadArguments ==
    WindowCalled =>
        LET bad == arg < 1 \/ Len(records) < arg
        IN  /\ (windowRet.exc.type # "None") <=> bad
            /\ bad => /\ windowRet.exc.type = "ValueError"
                      /\ windowRet.stage = "check"
                      /\ windowRet.window = NoWindow
            /\ ~bad => /\ windowRet.stage = "returned"
                       /\ Len(windowRet.window.records) = arg

\* A non-empty collection with fewer records than the window asks for.
C7_Witness ==
    /\ WindowCalled
    /\ arg >= 1 /\ records # <<>> /\ Len(records) < arg
    /\ windowRet.exc = ValueError("Not enough records to form a window")

TopCalled == called = "top_n_half_hours"

\* C3: for n >= 1, top_n_half_hours returns min(n, len(records)) records
\* drawn from the input, in non-increasing count order with equal counts in
\* ascending timestamp order, and no record left out outranks one returned.
C3_TopNIsRankedPrefix ==
    (TopCalled /\ arg >= 1) =>
        LET T == topRet.value
        IN  /\ topRet.exc = NoExc
            /\ Len(T) = (IF arg < Len(records) THEN arg ELSE Len(records))
            /\ \A i \in Positions(T) :
                  Occurrences(T, T[i]) <= Occurrences(records, T[i])
            /\ \A i, j \in Positions(T) :
                  i < j => \/ T[i].count > T[j].count
                           \/ /\ T[i].count = T[j].count
                              /\ T[i].timestamp <= T[j].timestamp
            /\ \A i \in Positions(records) :
                  Occurrences(records, records[i]) > Occurrences(T, records[i])
                      => \A j \in Positions(T) : ~Outranks(records[i], T[j])

\* Two returned records tie on count, the input lists the later one first,
\* and a record is left out.
C3_Witness ==
    /\ TopCalled /\ arg >= 1 /\ arg < Len(records)
    /\ Len(topRet.value) = arg
    /\ \E i, j \in Positions(records) :
          /\ i < j
          /\ records[i].count = records[j].count
          /\ records[i].timestamp > records[j].timestamp
          /\ \E a, b \in Positions(topRet.value) :
                a < b /\ topRet.value[a] = records[j] /\ topRet.value[b] = records[i]

\* C4: for n <= 0, top_n_half_hours returns an empty sequence and reports
\* no error.
C4_NonPositiveNReturnsEmpty ==
    (TopCalled /\ arg <= 0) => topRet = [exc |-> NoExc, value |-> <<>>]

DailyCalled == called = "daily_totals"
DatesOf(s) == {DateOf(s[i].timestamp) : i \in Positions(s)}
OnDate(s, d) == {i \in Positions(s) : DateOf(s[i].timestamp) = d}

RECURSIVE SumOver(_, _)
SumOver(s, I) ==
    IF I = {} THEN 0
    ELSE LET i == CHOOSE x \in I : TRUE IN s[i].count + SumOver(s, I \ {i})

RECURSIVE SumTotals(_)
SumTotals(pairs) ==
    IF Len(pairs) = 0 THEN 0 ELSE Head(pairs).total + SumTotals(Tail(pairs))

\* C8: daily_totals lists every date that has a record exactly once and no
\* other date, each with the sum of the counts of that date's records, in
\* strictly ascending date order, and the per-day totals add up to
\* total_cars of the collection.
C8_DailyTotalsPartition ==
    DailyCalled =>
        /\ \A d \in DatesOf(records) :
              Cardinality({k \in Positions(dailyRet) : dailyRet[k].date = d}) = 1
        /\ \A k \in Positions(dailyRet) :
              /\ dailyRet[k].date \in DatesOf(records)
              /\ dailyRet[k].total = SumOver(records, OnDate(records, dailyRet[k].date))
        /\ \A k, l \in Positions(dailyRet) : k < l => dailyRet[k].date < dailyRet[l].date
        /\ SumTotals(dailyRet) = TotalCars(records)
        /\ records = <<>> => dailyRet = <<>> /\ TotalCars(records) = 0

\* Two dates, listed out of date order, one of them with two records that
\* both count vehicles.
C8_Witness ==
    /\ DailyCalled
    /\ Len(dailyRet) = 2
    /\ DateOf(records[1].timestamp) > DateOf(records[Len(records)].timestamp)
    /\ \E i, j \in Positions(records) :
          /\ i # j
          /\ DateOf(records[i].timestamp) = DateOf(records[j].timestamp)
          /\ records[i].count > 0 /\ records[j].count > 0

\* A collection load_records can return: non-empty and in ascending
\* timestamp order.
LoaderCanProduce(recs) == recs # <<>> /\ NonDecreasing(recs)

AdjacentInOrder(W, recs) ==
    \E b \in Starts(StableOrder(recs), Len(W)) : W = RunAt(StableOrder(recs), b, Len(W))

\* C10 as stated: every returned window, for any collection the loader can
\* produce, has strictly increasing timestamps and is a run of adjacent
\* elements of the sorted input.
C10_WindowStrictlyIncreasing ==
    (WindowCalled /\ windowRet.stage = "returned" /\ LoaderCanProduce(records)) =>
        /\ StrictlyIncreasing(windowRet.window.records)
        /\ AdjacentInOrder(windowRet.window.records, records)

\* C10 amended: every returned window, for any collection the loader can
\* produce, has non-decreasing timestamps (strictly increasing when the
\* collection's timestamps are distinct) and is a run of window_size
\* adjacent elements of the sorted input.
C10_WindowNonDecreasing ==
    (WindowCalled /\ windowRet.stage = "returned" /\ LoaderCanProduce(records)) =>
        /\ NonDecreasing(windowRet.window.records)
        /\ StrictlyIncreasing(records) => StrictlyIncreasing(windowRet.window.records)
        /\ Len(windowRet.window.records) = arg
        /\ AdjacentInOrder(windowRet.window.records, records)

\* A window holding two observations that share a timestamp.
C10_Witness ==
    /\ WindowCalled /\ windowRet.stage = "returned" /\ LoaderCanProduce(records)
    /\ Len(windowRet.window.records) >= 2
    /\ ~StrictlyIncreasing(windowRet.window.records)

(***************************************************************************)
(* Properties of the loader and of main.                                   *)
(***************************************************************************)
NonBlank(lines) == {i \in Positions(lines) : lines[i] # <<>>}
Rejected(lines) ==
    {i \in NonBlank(lines) : ParseRecordLine(lines[i]).exc.type # "None"}
FirstOf(I) == CHOOSE i \in I : \A j \in I : i <= j

\* The observations of the non-blank lines, in file order.
RECURSIVE Observations(_)
Observations(lines) ==
    IF Len(lines) = 0 THEN <<>>
    ELSE (IF Head(lines) = <<>> THEN <<>> ELSE <<ParseRecordLine(Head(lines)).record>>)
         \o Observations(Tail(lines))

LoadDone == pc \in {"totals", "top", "window", "exit"}
LoadFails(f) ==
    f.status # "ok" \/ Rejected(f.lines) # {} \/ NonBlank(f.lines) = {}

\* C5: the loader skips blank lines and hands every other line to the
\* parser; when the parser rejects a line the load fails with no records
\* and an error naming the 1-based physical number of the first rejected
\* line and the parser's reason; otherwise there is one observation per
\* non-blank line.
C5_MalformedLineFailsWithLineNumber ==
    (LoadDone /\ file.status = "ok") =>
        IF Rejected(file.lines) # {}
        THEN LET k == FirstOf(Rejected(file.lines))
             IN  /\ records = <<>>
                 /\ pc = "exit"
                 /\ stdout = <<>>
                 /\ Len(stderr) = 1
                 /\ stderr[1].exc = Exc("ValueError", "Parse error", k,
                                        ParseRecordLine(file.lines[k]).exc.msg)
        ELSE /\ Len(records) = Cardinality(NonBlank(file.lines))
             /\ \A i \in NonBlank(file.lines) :
                   LET v == ParseRecordLine(file.lines[i]).record
                   IN  Occurrences(records, v) =
                           Cardinality({j \in NonBlank(file.lines) :
                                           ParseRecordLine(file.lines[j]).record = v})

\* A blank first line followed by a malformed line: line 2 is reported.
C5_Witness ==
    /\ LoadDone /\ file.status = "ok"
    /\ Len(file.lines) >= 2
    /\ file.lines[1] = <<>>
    /\ 2 \in Rejected(file.lines)
    /\ Len(stderr) = 1
    /\ stderr[1].exc.line = 2
    /\ stderr[1].exc.reason = "Count must be non-negative"

\* C9: for a well-formed file, a successful load returns a non-empty
\* permutation of the parsed observations in ascending timestamp order with
\* equal timestamps in file order; a file without non-blank lines fails with
\* "No valid records found"; a second load returns the same sequence.
C9_LoadIsStableSortedPermutation ==
    (LoadDone /\ file.status = "ok" /\ Rejected(file.lines) = {}) =>
        LET parsed == Observations(file.lines)
        IN  IF NonBlank(file.lines) = {}
            THEN /\ records = <<>>
                 /\ pc = "exit"
                 /\ Len(stderr) = 1
                 /\ stderr[1].exc = ValueError("No valid records found")
            ELSE /\ records # <<>>
                 /\ stderr = <<>>
                 /\ Len(records) = Len(parsed)
                 /\ \A i \in Positions(parsed) :
                       Occurrences(records, parsed[i]) = Occurrences(parsed, parsed[i])
                 /\ NonDecreasing(records)
                 /\ records = StableOrder(parsed)
                 /\ LoadRecords(file) = [exc |-> NoExc, records |-> records]

\* A file whose lines are not in timestamp order.
C9_Witness ==
    /\ pc = "totals" /\ file.status = "ok"
    /\ Len(records) >= 2
    /\ ~NonDecreasing(Observations(file.lines))
    /\ NonDecreasing(records)

\* C6 as stated: only a missing or unreadable source becomes exit code 1
\* with a message naming the path; a malformed line or a file without
\* records leaves main as an exception instead.
C6_OnlyNotFoundBecomesExitCode1 ==
    (pc = "exit" /\ LoadFails(file)) =>
        /\ file.status \in {"missing", "unreadable"} =>
              exit_code = 1 /\ Len(stderr) = 1 /\ stderr[1].path
        /\ file.status = "ok" => exit_code # 1 /\ raised.type # "None"

\* C6 amended: every failure of the load becomes exit code 1 with one line
\* on the error stream and nothing on standard output, and none leaves main
\* as an exception; a missing source is reported as "File not found" with
\* the path, every other failure as "Error reading file" with the load
\* error's own text (for a malformed line, its number and the reason); a
\* load that succeeds writes nothing to the error stream.
C6_EveryLoadFailureBecomesExitCode1 ==
    LoadDone =>
        IF LoadFails(file)
        THEN /\ pc = "exit"
             /\ exit_code = 1
             /\ raised = NoExc
             /\ stdout = <<>>
             /\ Len(stderr) = 1
             /\ IF file.status = "missing"
                THEN stderr[1] = [text |-> "Error: File not found", path |-> TRUE,
                                  exc |-> NoExc]
                ELSE /\ stderr[1].text = "Error reading file"
                     /\ stderr[1].exc.type \in {"ValueError", "OSError"}
                     /\ (file.status = "ok" /\ Rejected(file.lines) # {}) =>
                            /\ stderr[1].exc.msg = "Parse error"
                            /\ stderr[1].exc.line \in Rejected(file.lines)
                            /\ ~stderr[1].path
                     /\ (file.status = "ok" /\ Rejected(file.lines) = {}) =>
                            stderr[1].exc = ValueError("No valid records found")
        ELSE stderr = <<>> /\ exit_code # 1

\* A malformed line ends main with exit code 1.
C6_Witness ==
    /\ pc = "exit" /\ file.status = "ok"
    /\ Rejected(file.lines) # {}
    /\ exit_code = 1
    /\ raised = NoExc
    /\ Len(stderr) = 1
    /\ stderr[1].exc.msg = "Parse error"

\* C2: when the load succeeds with at least --window records, --top >= 1
\* and --window >= 1, main returns 0 and its output holds, in order, the
\* Total line, the days in ascending order, the top list and the lowest
\* window report with its start and total.
C2_SuccessfulRunReportsEverySection ==
    (/\ pc = "exit" /\ ~LoadFails(file)
     /\ args.top >= 1 /\ args.window >= 1 /\ Len(records) >= args.window) =>
        /\ exit_code = 0
        /\ raised = NoExc
        /\ Len(stdout) >= 4
        /\ stdout[1].kind = "Total"
        /\ \E i, j \in Positions(stdout) :
              /\ 2 < i /\ i < j /\ j + 1 = Len(stdout)
              /\ \A k \in 2..(i - 1) : stdout[k].kind = "day"
              /\ \A k, l \in 2..(i - 1) : k < l => stdout[k].a < stdout[l].a
              /\ stdout[i].kind = "Top half hours:"
              /\ \A k \in (i + 1)..(j - 1) : stdout[k].kind = "half hour"
              /\ stdout[j].kind = "Lowest traffic window:"
              /\ stdout[j + 1].kind = "Start"
              /\ stdout[j + 1].a = WindowStart(lowest_window)
              /\ stdout[j + 1].b = WindowTotal(lowest_window)

====
